---- MODULE Spec2Model ----
(***************************************************************************)
(* Shape-level model of src/src/model/network/layer.py: the custom Keras   *)
(* layers Deconv3D, Resize3d, Conv3dBlock, Deconv3dBlock,                   *)
(* AdditiveUpSampling, DownSampleResnetBlock, UpSampleResnetBlock and       *)
(* DDFSummand.                                                              *)
(*                                                                          *)
(* A tensor is its static shape <<batch, dim1, dim2, dim3, channels>>, one  *)
(* value per channel (every channel is a spatially constant volume, which   *)
(* an interpolating resize maps to the same constant) and the name of the   *)
(* sub-layer that produced it.  A layer object is a record of its private   *)
(* attributes, under the names the source gives them.  Python's None is     *)
(* the record None for object-valued attributes and the empty sequence for  *)
(* list-valued ones; a scalar kernel_size/strides (a Python int) is a       *)
(* sequence of length 1, a per-axis list a sequence of length 3.            *)
(***************************************************************************)
EXTENDS Integers, Sequences, FiniteSets, TLC

VARIABLES layer, res

vars == <<layer, res>>

(***************************************************************************)
(* Bounds of the model.                                                    *)
(***************************************************************************)
MaxBatch == 2

MaxDim == 2

MaxChannels == 4

MaxStride == 3

(***************************************************************************)
(* Values.                                                                 *)
(***************************************************************************)
None == [cls |-> "NoneType"]

NoList == <<>>

Tensor(shape, ch, by) == [shape |-> shape, ch |-> ch, by |-> by]

InputTensor(shape) ==
    Tensor(shape, [i \in 1..shape[Len(shape)] |-> 2 ^ (i - 1)], "input")

Cube(D) == {<<a, b, c>> : a \in D, b \in D, c \in D}

Shapes(B, S, C) == {<<b, s[1], s[2], s[3], c>> : b \in B, s \in S, c \in C}

RECURSIVE Product(_)
Product(s) == IF s = <<>> THEN 1 ELSE s[1] * Product(Tail(s))

RECURSIVE SumSeq(_)
SumSeq(s) == IF s = <<>> THEN 0 ELSE s[1] + SumSeq(Tail(s))

(***************************************************************************)
(* The outcome of one invocation: the tensors returned (or the exception   *)
(* raised and the statement that raised it) and the primitive steps that   *)
(* ran, in execution order, each under the path of attribute names that    *)
(* leads to the sub-layer which ran it.                                    *)
(***************************************************************************)
Step(name, op, training, a, b, to) ==
    [layer |-> <<name>>, op |-> op, training |-> training, a |-> a, b |-> b, to |-> to]

Return(out, log) == [ok |-> TRUE, out |-> out, err |-> "", at |-> "", log |-> log]

Raise(err, at, log) == [ok |-> FALSE, out |-> <<>>, err |-> err, at |-> at, log |-> log]

Prefix(name, log) == [i \in 1..Len(log) |-> [log[i] EXCEPT !.layer = <<name>> \o @]]

(* Sequencing: evaluate r once; on success continue with F on its tensors and *)
(* prepend its steps, on failure stop with it.                                *)
Only(S) == CHOOSE x \in S : TRUE

Bind(r, F(_)) ==
    Only({IF ~x.ok THEN x ELSE [F(x.out) EXCEPT !.log = x.log \o @] : x \in {r}})

(* The outcome of a sub-layer, named by the attribute that holds it. *)
In(name, r) == [r EXCEPT !.log = Prefix(name, @),
                         !.out = [i \in 1..Len(@) |-> [@[i] EXCEPT !.by = name]]]



(***************************************************************************)
(* Framework primitives used by Resize3d and AdditiveUpSampling.           *)
(***************************************************************************)
ReshapeCh(ch, c) == [m \in 1..c |-> ch[((m - 1) % Len(ch)) + 1]]

TfReshape(t, shape) ==
    IF Product(t.shape) = Product(shape)
    THEN Return(<<Tensor(shape, ReshapeCh(t.ch, shape[Len(shape)]), "reshape")>>,
                <<Step("tf", "reshape", "", t.shape, NoList, shape)>>)
    ELSE Raise("InvalidArgumentError", "tf.reshape",
               <<Step("tf", "reshape", "", t.shape, shape, NoList)>>)

TfImageResize(images, size) ==
    LET to == <<images.shape[1], size[1], size[2], images.shape[4]>>
    IN  Return(<<Tensor(to, images.ch, "resize")>>,
               <<Step("tf", "image.resize", "", images.shape, size, to)>>)

TfSplit(t, n) ==
    LET c == t.shape[5]
        w == c \div n
    IN  [k \in 1..n |->
            Tensor([t.shape EXCEPT ![5] = w], SubSeq(t.ch, (k - 1) * w + 1, k * w), "split")]

TfStackReduceSum(parts) ==
    Tensor(parts[1].shape,
           [j \in 1..parts[1].shape[5] |->
               SumSeq([k \in 1..Len(parts) |-> parts[k].ch[j]])],
           "reduce_sum")

(***************************************************************************)
(* Resize3d                                                                *)
(***************************************************************************)
Resize3d(size) == [cls |-> "Resize3d", _size |-> size, _method |-> "bilinear"]

Resize3d_reshape2_mutant(self, input_shape) ==
    <<input_shape[1], self._size[1], self._size[2], self._size[3] * input_shape[5]>>

Resize3d_reshape2(self, input_shape) ==
    <<input_shape[1], input_shape[2], self._size[2], self._size[3] * input_shape[5]>>

Resize3d_call(self, inputs) ==
    LET input_shape == inputs.shape
    IN  Bind(TfReshape(inputs, <<input_shape[1] * input_shape[2], input_shape[3],
                                 input_shape[4], input_shape[5]>>), LAMBDA o1 :
        Bind(TfImageResize(o1[1], <<self._size[2], self._size[3]>>), LAMBDA o2 :
        Bind(TfReshape(o2[1], Resize3d_reshape2(self, input_shape)), LAMBDA o3 :
        Bind(TfImageResize(o3[1], <<self._size[1], self._size[2]>>), LAMBDA o4 :
        Bind(TfReshape(o4[1], <<input_shape[1], self._size[1], self._size[2],
                                self._size[3], input_shape[5]>>), LAMBDA o5 :
        Return(<<[o5[1] EXCEPT !.by = "Resize3d"]>>, <<>>))))))

(***************************************************************************)
(* AdditiveUpSampling                                                      *)
(***************************************************************************)
AdditiveUpSampling(output_shape, stride) ==
    [cls |-> "AdditiveUpSampling", _stride |-> stride, _resize3d |-> Resize3d(output_shape)]

AdditiveUpSampling_split_mutant(t, n) ==
    [k \in 1..n |->
        Tensor([t.shape EXCEPT ![5] = t.shape[5] \div n],
               [j \in 1..(t.shape[5] \div n) |-> t.ch[(j - 1) * n + k]], "split")]

AdditiveUpSampling_split(t, n) == TfSplit(t, n)

AdditiveUpSampling_call(self, inputs) ==
    IF inputs.shape[5] % self._stride # 0
    THEN Raise("ValueError", "AdditiveUpSampling.call", <<>>)
    ELSE
        Bind(In("_resize3d", Resize3d_call(self._resize3d, inputs)), LAMBDA output :
        Only({Return(<<[TfStackReduceSum(parts) EXCEPT !.by = "AdditiveUpSampling"]>>,
                     <<Step("tf", "split", "", output[1].shape, NoList, parts[1].shape),
                       Step("tf", "reduce_sum", "", parts[1].shape, NoList,
                            parts[1].shape)>>) :
                 parts \in {AdditiveUpSampling_split(output[1], self._stride)}}))

(***************************************************************************)
(* The transposed-convolution primitive (tf.keras.layers.Conv3DTranspose). *)
(* Its constructor rejects an output padding that is negative or not       *)
(* smaller than the stride; its output length is the formula quoted in      *)
(* Deconv3D.build; its kernel is created for the channel count of the      *)
(* first input (in_channels = 0 before that).                              *)
(***************************************************************************)
Conv3DTranspose(filters, kernel_size, strides, padding, output_padding) ==
    IF /\ output_padding # NoList
       /\ \E i \in 1..3 : output_padding[i] < 0 \/ output_padding[i] >= strides[i]
    THEN [ok |-> FALSE, obj |-> None, err |-> "ValueError", at |-> "Conv3DTranspose.__init__"]
    ELSE [ok |-> TRUE,
          obj |-> [cls |-> "Conv3DTranspose", filters |-> filters, kernel_size |-> kernel_size,
                   strides |-> strides, padding |-> padding,
                   output_padding |-> output_padding, in_channels |-> 0],
          err |-> "", at |-> ""]

DeconvOutputLength(input_length, filter_size, padding, output_padding, stride) ==
    IF output_padding = NoList
    THEN IF padding = "valid"
         THEN input_length * stride
              + (IF filter_size > stride THEN filter_size - stride ELSE 0)
         ELSE input_length * stride
    ELSE LET pad == IF padding = "same" THEN filter_size \div 2 ELSE 0
         IN  (input_length - 1) * stride + filter_size - 2 * pad + output_padding[1]

Conv3DTranspose_call(self, inputs) ==
    IF self.in_channels # 0 /\ self.in_channels # inputs.shape[5]
    THEN [self |-> self, r |-> Raise("ValueError", "Conv3DTranspose.input_spec", <<>>)]
    ELSE
        LET to == [i \in 1..5 |->
                      IF i = 1 THEN inputs.shape[1]
                      ELSE IF i = 5 THEN self.filters
                      ELSE DeconvOutputLength(
                               inputs.shape[i], self.kernel_size[i - 1], self.padding,
                               IF self.output_padding = NoList THEN NoList
                               ELSE <<self.output_padding[i - 1]>>,
                               self.strides[i - 1])]
        IN  [self |-> [self EXCEPT !.in_channels = inputs.shape[5]],
             r |-> Return(<<Tensor(to, [j \in 1..self.filters |-> 0], "Conv3DTranspose")>>,
                          <<Step("_Conv3DTranspose", "conv3d_transpose", "",
                                 inputs.shape, NoList, to)>>)]

(***************************************************************************)
(* Deconv3D                                                                *)
(***************************************************************************)
Deconv3D(filters, output_shape, kernel_size, strides, padding) ==
    [cls |-> "Deconv3D", _filters |-> filters, _output_shape |-> output_shape,
     _kernel_size |-> kernel_size, _strides |-> strides, _padding |-> padding,
     _output_padding |-> NoList, _Conv3DTranspose |-> None, built |-> FALSE]

Deconv3D_padding_mutant(self) == self._padding

Deconv3D_padding(self) == "same"

Deconv3D_output_padding_mutant(self, input_shape) ==
    [i \in 1..3 |->
        LET v == self._output_shape[i]
                 - ((input_shape[1 + i] - 1) * self._strides[i]
                    + self._kernel_size[i] - 2 * (self._kernel_size[i] \div 2))
        IN  IF v < 0 THEN 0 ELSE IF v >= self._strides[i] THEN self._strides[i] - 1 ELSE v]

Deconv3D_output_padding(self, input_shape) ==
    [i \in 1..3 |->
        self._output_shape[i]
        - ((input_shape[1 + i] - 1) * self._strides[i]
           + self._kernel_size[i] - 2 * (self._kernel_size[i] \div 2))]

Deconv3D_build(self, input_shape) ==
    LET s1 == [self EXCEPT
                 !.built = TRUE,
                 !._kernel_size = IF Len(@) = 1 THEN <<@[1], @[1], @[1]>> ELSE @,
                 !._strides = IF Len(@) = 1 THEN <<@[1], @[1], @[1]>> ELSE @]
    IN  Only({Only({IF c.ok
                    THEN [self |-> [s2 EXCEPT !._Conv3DTranspose = c.obj],
                          r |-> Return(<<>>, <<>>)]
                    ELSE [self |-> s2, r |-> Raise(c.err, c.at, <<>>)] :
                       c \in {Conv3DTranspose(s2._filters, s2._kernel_size, s2._strides,
                                              s2._padding, s2._output_padding)}}) :
                 s2 \in {IF s1._output_shape # NoList
                         THEN [s1 EXCEPT
                                 !._padding = Deconv3D_padding(s1),
                                 !._output_padding = Deconv3D_output_padding(s1, input_shape)]
                         ELSE s1}})

Deconv3D_call_mutant(self, inputs) ==
    Only({IF ~b.r.ok THEN b
          ELSE Only({[self |-> [b.self EXCEPT !._Conv3DTranspose = c.self], r |-> c.r] :
                        c \in {Conv3DTranspose_call(b.self._Conv3DTranspose, inputs)}}) :
             b \in {Deconv3D_build(self, inputs.shape)}})

Deconv3D_call(self, inputs) ==
    IF self._Conv3DTranspose = None
    THEN [self |-> self, r |-> Raise("TypeError", "Deconv3D.call", <<>>)]
    ELSE Only({[self |-> [self EXCEPT !._Conv3DTranspose = c.self], r |-> c.r] :
                  c \in {Conv3DTranspose_call(self._Conv3DTranspose, inputs)}})

(* Layer.__call__: the lazy build hook runs once, before the first call. *)
Deconv3D___call__(self, inputs) ==
    IF self.built
    THEN Deconv3D_call(self, inputs)
    ELSE Only({IF ~b.r.ok THEN b ELSE Deconv3D_call(b.self, inputs) :
                  b \in {Deconv3D_build(self, inputs.shape)}})

(***************************************************************************)
(* Primitives made by layer_util (conv3d, batch_norm, act, max_pool3d) and *)
(* elementwise addition.  Each is its shape function; batch_norm records   *)
(* the training flag it is invoked with.                                   *)
(***************************************************************************)
LayerUtilDefaultKernelSize == 3

LayerUtilDefaultPadding == "same"

Conv3D(filters, kernel_size, strides, padding) ==
    [cls |-> "Conv3D", filters |-> filters, kernel_size |-> kernel_size,
     strides |-> strides, padding |-> padding]

ConvOutputLength(input_length, filter_size, padding, stride) ==
    IF padding = "same"
    THEN (input_length + stride - 1) \div stride
    ELSE (input_length - filter_size + stride) \div stride



Conv3D_call(self, name, inputs) ==
    LET to == [i \in 1..5 |->
                  IF i = 1 THEN inputs.shape[1]
                  ELSE IF i = 5 THEN self.filters
                  ELSE ConvOutputLength(inputs.shape[i], self.kernel_size, self.padding,
                                        self.strides)]
    IN  IF \E i \in 2..4 : to[i] <= 0
        THEN Raise("ValueError", name, <<Step(name, "conv3d", "", inputs.shape, NoList, NoList)>>)
        ELSE Return(<<Tensor(to, [j \in 1..self.filters |-> 0], name)>>,
                    <<Step(name, "conv3d", "", inputs.shape, NoList, to)>>)

BatchNorm_call(name, inputs, training) ==
    Return(<<[inputs EXCEPT !.by = name]>>,
           <<Step(name, "batch_norm", training, inputs.shape, NoList, inputs.shape)>>)

Relu_call(name, inputs) ==
    Return(<<[inputs EXCEPT !.by = name]>>,
           <<Step(name, "relu", "", inputs.shape, NoList, inputs.shape)>>)

MaxPool3D_call(name, inputs) ==
    LET to == [i \in 1..5 |->
                  IF i \in 2..4 THEN ConvOutputLength(inputs.shape[i], 2, "same", 2)
                  ELSE inputs.shape[i]]
    IN  Return(<<Tensor(to, inputs.ch, name)>>,
               <<Step(name, "max_pool3d", "", inputs.shape, NoList, to)>>)

Broadcastable(a, b) == \A i \in 1..5 : a[i] = b[i] \/ a[i] = 1 \/ b[i] = 1

TfAdd(name, x, y) ==
    IF Broadcastable(x.shape, y.shape)
    THEN LET to == [i \in 1..5 |-> IF x.shape[i] = 1 THEN y.shape[i] ELSE x.shape[i]]
         IN  Return(<<Tensor(to,
                             [j \in 1..to[5] |->
                                 x.ch[IF x.shape[5] = 1 THEN 1 ELSE j]
                                 + y.ch[IF y.shape[5] = 1 THEN 1 ELSE j]],
                             name)>>,
                    <<Step(name, "add", "", x.shape, y.shape, to)>>)
    ELSE Raise("InvalidArgumentError", name,
               <<Step(name, "add", "", x.shape, y.shape, NoList)>>)

(***************************************************************************)
(* Conv3dBlock and Deconv3dBlock                                           *)
(***************************************************************************)
Conv3dBlock(filters, kernel_size, strides, padding) ==
    [cls |-> "Conv3dBlock", _conv3d |-> Conv3D(filters, kernel_size, strides, padding)]

Conv3dBlock_steps(self, inputs, training) ==
    Bind(Conv3D_call(self._conv3d, "_conv3d", inputs), LAMBDA a :
    Bind(BatchNorm_call("_batch_norm", a[1], training), LAMBDA b :
    Relu_call("_relu", b[1])))

Conv3dBlock_call_mutant(self, inputs, training) == Conv3dBlock_steps(self, inputs, "None")

Conv3dBlock_call(self, inputs, training) == Conv3dBlock_steps(self, inputs, training)

Deconv3dBlock(filters, output_shape, kernel_size, strides, padding) ==
    [cls |-> "Deconv3dBlock",
     _deconv3d |-> Deconv3D(filters, output_shape, kernel_size, strides, padding)]

Deconv3dBlock_call(self, inputs, training) ==
    Only({[self |-> [self EXCEPT !._deconv3d = d.self],
           r |-> Bind([d.r EXCEPT !.log = Prefix("_deconv3d", @)], LAMBDA a :
                 Bind(BatchNorm_call("_batch_norm", a[1], training), LAMBDA b :
                 Relu_call("_relu", b[1])))] :
             d \in {Deconv3D___call__(self._deconv3d, inputs)}})

(***************************************************************************)
(* DownSampleResnetBlock                                                   *)
(***************************************************************************)
DownSampleResnetBlock(filters, kernel_size, use_pooling) ==
    [cls |-> "DownSampleResnetBlock", _use_pooling |-> use_pooling,
     _conv3d_block1 |-> Conv3dBlock(filters, kernel_size, 1, "same"),
     _conv3d_block2 |-> Conv3dBlock(filters, kernel_size, 1, "same"),
     _conv3d |-> Conv3D(filters, kernel_size, 1, LayerUtilDefaultPadding),
     _conv3d_block3 |-> Conv3dBlock(filters, kernel_size, 2, "same")]



DownSampleResnetBlock_returns_mutant(h1, h0, r1, r2) == <<h1, r2>>

DownSampleResnetBlock_returns(h1, h0, r1, r2) == <<h1, h0>>

DownSampleResnetBlock_call(self, inputs, training) ==
    Bind(In("_conv3d_block1",
            Conv3dBlock_call(self._conv3d_block1, inputs, training)), LAMBDA h0 :
    Bind(In("_conv3d_block2",
            Conv3dBlock_call(self._conv3d_block2, h0[1], training)), LAMBDA r1 :
    Bind(Conv3D_call(self._conv3d, "_conv3d", r1[1]), LAMBDA c :
    Bind(BatchNorm_call("_batch_norm", c[1], training), LAMBDA bn :
    Bind(TfAdd("batch_norm + h0", bn[1], h0[1]), LAMBDA sum :
    Bind(Relu_call("_relu", sum[1]), LAMBDA r2 :
    Bind(IF self._use_pooling
         THEN MaxPool3D_call("_max_pool3d", r2[1])
         ELSE In("_conv3d_block3",
                 Conv3dBlock_call(self._conv3d_block3, r2[1], training)), LAMBDA h1 :
    Return(DownSampleResnetBlock_returns(h1[1], h0[1], r1[1], r2[1]), <<>>))))))))

(***************************************************************************)
(* UpSampleResnetBlock.  An input is a container kind ("tensor" for a      *)
(* single tensor, "list" or "tuple" for a sequence) and its tensors.       *)
(***************************************************************************)
Conv3dBlockKernelSize == 3

Deconv3dBlockKernelSize == 3

UpSampleStrides == 2

AdditiveUpSamplingStride == 2

UpSampleResnetBlock(filters, use_additive_upsampling) ==
    [cls |-> "UpSampleResnetBlock", _filters |-> filters,
     _use_additive_upsampling |-> use_additive_upsampling,
     _deconv3d_block |-> None, _additive_upsampling |-> None,
     _conv3d_block |-> Conv3dBlock(filters, Conv3dBlockKernelSize, 1, "same"),
     _conv3d |-> Conv3D(filters, LayerUtilDefaultKernelSize, 1, LayerUtilDefaultPadding),
     built |-> FALSE]

UpSampleResnetBlock_check_mutant(kind, n) == kind \in {"list", "tuple"} /\ n >= 2

UpSampleResnetBlock_build_check(kind, n) == kind = "list" /\ n = 2

UpSampleResnetBlock_call_check(kind, n) == kind = "list" /\ n = 2

UpSampleResnetBlock_sublayers_mutant(self, output_shape) ==
    [self EXCEPT
       !._deconv3d_block =
           Deconv3dBlock(self._filters, output_shape, <<Deconv3dBlockKernelSize>>, <<1>>, "same"),
       !._additive_upsampling =
           IF self._use_additive_upsampling
           THEN AdditiveUpSampling(output_shape, AdditiveUpSamplingStride)
           ELSE @]

UpSampleResnetBlock_sublayers(self, output_shape) ==
    [self EXCEPT
       !._deconv3d_block =
           Deconv3dBlock(self._filters, output_shape, <<Deconv3dBlockKernelSize>>,
                         <<UpSampleStrides>>, "same"),
       !._additive_upsampling =
           IF self._use_additive_upsampling
           THEN AdditiveUpSampling(output_shape, AdditiveUpSamplingStride)
           ELSE @]

UpSampleResnetBlock_build(self, kind, input_shape) ==
    IF ~UpSampleResnetBlock_build_check(kind, Len(input_shape))
    THEN [self |-> self, r |-> Raise("ValueError", "UpSampleResnetBlock.build", <<>>)]
    ELSE [self |-> UpSampleResnetBlock_sublayers([self EXCEPT !.built = TRUE],
                                                 SubSeq(input_shape[2], 2, 4)),
          r |-> Return(<<>>, <<>>)]

UpSampleResnetBlock_call(self, kind, inputs, training) ==
    IF ~UpSampleResnetBlock_call_check(kind, Len(inputs))
    THEN [self |-> self, r |-> Raise("ValueError", "UpSampleResnetBlock.call", <<>>)]
    ELSE IF self._deconv3d_block = None
    THEN [self |-> self, r |-> Raise("TypeError", "UpSampleResnetBlock.call", <<>>)]
    ELSE
        LET inputs_nonskip == inputs[1]
            inputs_skip == inputs[2]
        IN  Only({[self |-> [self EXCEPT !._deconv3d_block = d.self],
                   r |->
                     Bind(In("_deconv3d_block", d.r), LAMBDA h0 :
                     Bind(IF self._use_additive_upsampling
                          THEN Bind(In("_additive_upsampling",
                                       AdditiveUpSampling_call(self._additive_upsampling,
                                                               inputs_nonskip)), LAMBDA a :
                               TfAdd("h0 += additive_upsampling", h0[1], a[1]))
                          ELSE Return(h0, <<>>), LAMBDA h0a :
                     Bind(TfAdd("h0 + inputs_skip", h0a[1], inputs_skip), LAMBDA r1 :
                     Bind(In("_conv3d_block",
                             Conv3dBlock_call(self._conv3d_block, h0a[1], training)), LAMBDA r2 :
                     Bind(Conv3D_call(self._conv3d, "_conv3d", r2[1]), LAMBDA c :
                     Bind(BatchNorm_call("_batch_norm", c[1], training), LAMBDA bn :
                     Bind(TfAdd("batch_norm + r1", bn[1], r1[1]), LAMBDA sum :
                     Relu_call("_relu", sum[1]))))))))] :
                     d \in {Deconv3dBlock_call(self._deconv3d_block, inputs_nonskip, training)}})

ShapesOf(inputs) == [i \in 1..Len(inputs) |-> inputs[i].shape]

(* Layer.__call__: the lazy build hook runs once, before the first call. *)
UpSampleResnetBlock___call__(self, kind, inputs, training) ==
    IF self.built
    THEN UpSampleResnetBlock_call(self, kind, inputs, training)
    ELSE Only({IF ~b.r.ok THEN b
               ELSE UpSampleResnetBlock_call(b.self, kind, inputs, training) :
                  b \in {UpSampleResnetBlock_build(self, kind, ShapesOf(inputs))}})

(***************************************************************************)
(* DDFSummand                                                              *)
(***************************************************************************)
DDFSummandFilters == 3

DDFSummand(output_shape, filters) ==
    [cls |-> "DDFSummand", _output_shape |-> output_shape,
     _conv3d |-> Conv3D(filters, LayerUtilDefaultKernelSize, 1, LayerUtilDefaultPadding),
     _resize3d |-> Resize3d(output_shape)]

DDFSummand_call(self, inputs) ==
    Bind(Conv3D_call(self._conv3d, "_conv3d", inputs), LAMBDA output :
    IF inputs.shape # self._output_shape
    THEN In("_resize3d", Resize3d_call(self._resize3d, output[1]))
    ELSE Return(output, <<>>))

(***************************************************************************)
(* State machine: one layer object and the outcome of the last operation.  *)
(* Resize3d and AdditiveUpSampling keep no state between calls, so each    *)
(* instance is applied once to an input drawn from InputShapes.            *)
(***************************************************************************)
NoResult == [op |-> "init", kind |-> "", inputs |-> <<>>, training |-> "", r |-> Return(<<>>, <<>>)]

Result(op, kind, inputs, training, r) ==
    [op |-> op, kind |-> kind, inputs |-> inputs, training |-> training, r |-> r]

InputShapes == Shapes(1..MaxBatch, Cube(1..MaxDim), 1..MaxChannels)

InitResize3d ==
    /\ layer \in {Resize3d(size) : size \in Cube(1..MaxDim)}
    /\ res = NoResult

Resize3d___call__ ==
    /\ layer.cls = "Resize3d"
    /\ res.op = "init"
    /\ \E shape \in InputShapes :
          res' = Result("call", "tensor", <<InputTensor(shape)>>, "",
                        Resize3d_call(layer, InputTensor(shape)))
    /\ UNCHANGED layer

SpecResize3d == InitResize3d /\ [][Resize3d___call__]_vars

InitAdditiveUpSampling ==
    /\ layer \in {AdditiveUpSampling(size, stride) :
                     size \in Cube(1..MaxDim), stride \in 1..MaxStride}
    /\ res = NoResult

AdditiveUpSampling___call__ ==
    /\ layer.cls = "AdditiveUpSampling"
    /\ res.op = "init"
    /\ \E shape \in InputShapes :
          res' = Result("call", "tensor", <<InputTensor(shape)>>, "",
                        AdditiveUpSampling_call(layer, InputTensor(shape)))
    /\ UNCHANGED layer

SpecAdditiveUpSampling == InitAdditiveUpSampling /\ [][AdditiveUpSampling___call__]_vars

(***************************************************************************)
(* Deconv3D: configure, then build(input_shape) and layer(inputs) in any   *)
(* order and any number of times.                                          *)
(***************************************************************************)
Latin(M) == {<<a, b, ((a + b) % M) + 1>> : a \in 1..M, b \in 1..M}

DeconvInputShapes == Shapes({1}, Latin(MaxDim), {1})

DeconvConfigs ==
    {Deconv3D(2, o, k, s, p) :
        o \in {NoList} \cup Latin(2 * MaxDim),
        k \in {<<3>>, <<3, 1, 2>>},
        s \in {<<1>>, <<2>>, <<2, 1, 3>>},
        p \in {"same", "valid"}}

InitDeconv3D ==
    /\ layer \in DeconvConfigs
    /\ res = NoResult

Deconv3D_build_op ==
    /\ layer.cls = "Deconv3D"
    /\ \E shape \in DeconvInputShapes :
          LET b == Deconv3D_build(layer, shape)
          IN  /\ layer' = b.self
              /\ res' = Result("build", "shape", <<InputTensor(shape)>>, "", b.r)

Deconv3D_call_op ==
    /\ layer.cls = "Deconv3D"
    /\ \E shape \in DeconvInputShapes :
          LET c == Deconv3D___call__(layer, InputTensor(shape))
          IN  /\ layer' = c.self
              /\ res' = Result("call", "tensor", <<InputTensor(shape)>>, "", c.r)

NextDeconv3D == Deconv3D_build_op \/ Deconv3D_call_op

SpecDeconv3D == InitDeconv3D /\ [][NextDeconv3D]_vars

(***************************************************************************)
(* Conv3dBlock, DownSampleResnetBlock and DDFSummand keep no state of      *)
(* their own between calls: each instance is applied once.                 *)
(***************************************************************************)
Trainings == {"True", "False", "None"}

InitConv3dBlock ==
    /\ layer \in {Conv3dBlock(f, k, s, p) :
                     f \in 1..2, k \in {1, 3}, s \in 1..2, p \in {"same", "valid"}}
    /\ res = NoResult

Conv3dBlock___call__ ==
    /\ layer.cls = "Conv3dBlock"
    /\ res.op = "init"
    /\ \E shape \in Shapes({1}, Latin(MaxDim), {1}), training \in Trainings :
          res' = Result("call", "tensor", <<InputTensor(shape)>>, training,
                        Conv3dBlock_call(layer, InputTensor(shape), training))
    /\ UNCHANGED layer

InitDeconv3dBlock ==
    /\ layer \in {Deconv3dBlock(2, o, <<Deconv3dBlockKernelSize>>, <<s>>, "same") :
                     o \in {NoList, <<2, 2, 1>>, <<2, 4, 3>>}, s \in 1..2}
    /\ res = NoResult

Deconv3dBlock___call__ ==
    /\ layer.cls = "Deconv3dBlock"
    /\ \E shape \in Shapes({1}, Latin(MaxDim), {1}), training \in Trainings :
          LET c == Deconv3dBlock_call(layer, InputTensor(shape), training)
          IN  /\ layer' = c.self
              /\ res' = Result("call", "tensor", <<InputTensor(shape)>>, training, c.r)

DownInputShapes == Shapes(1..MaxBatch, Cube(1..(2 * MaxDim)), 1..MaxChannels)

InitDown ==
    /\ layer \in {DownSampleResnetBlock(f, k, p) : f \in 1..2, k \in {1, 3}, p \in BOOLEAN}
    /\ res = NoResult

DownSampleResnetBlock___call__ ==
    /\ layer.cls = "DownSampleResnetBlock"
    /\ res.op = "init"
    /\ \E shape \in DownInputShapes, training \in Trainings :
          res' = Result("call", "tensor", <<InputTensor(shape)>>, training,
                        DownSampleResnetBlock_call(layer, InputTensor(shape), training))
    /\ UNCHANGED layer

SpecDown == InitDown /\ [][DownSampleResnetBlock___call__]_vars

InitDDFSummand ==
    /\ layer \in {DDFSummand(o, f) : o \in Cube(1..MaxDim), f \in {1, DDFSummandFilters}}
    /\ res = NoResult

DDFSummand___call__ ==
    /\ layer.cls = "DDFSummand"
    /\ res.op = "init"
    /\ \E shape \in InputShapes :
          res' = Result("call", "tensor", <<InputTensor(shape)>>, "",
                        DDFSummand_call(layer, InputTensor(shape)))
    /\ UNCHANGED layer

SpecDDFSummand == InitDDFSummand /\ [][DDFSummand___call__]_vars

(***************************************************************************)
(* UpSampleResnetBlock: configure, then build(input_shape) and             *)
(* layer(inputs) in any order and any number of times.                     *)
(***************************************************************************)
UpNonskip == {InputTensor(<<1, s[1], s[2], s[3], c>>) :
                 s \in {<<1, 1, 1>>, <<1, 2, 2>>}, c \in {2, 3}}

UpSkip == {InputTensor(<<1, s[1], s[2], s[3], 1>>) :
              s \in {<<2, 2, 1>>, <<2, 4, 3>>, <<3, 3, 3>>}}

UpInputs ==
    {[kind |-> k, ts |-> <<a, b>>] : k \in {"list", "tuple"}, a \in UpNonskip, b \in UpSkip}
    \cup {[kind |-> "tensor", ts |-> <<a>>] : a \in UpSkip}
    \cup {[kind |-> "list", ts |-> <<a>>] : a \in UpSkip}
    \cup {[kind |-> "list", ts |-> <<a, a, a>>] : a \in UpSkip}

InitUp ==
    /\ layer \in {UpSampleResnetBlock(f, a) : f \in 1..2, a \in BOOLEAN}
    /\ res = NoResult

UpSampleResnetBlock_build_op ==
    /\ layer.cls = "UpSampleResnetBlock"
    /\ \E x \in UpInputs :
          LET b == UpSampleResnetBlock_build(layer, x.kind, ShapesOf(x.ts))
          IN  /\ layer' = b.self
              /\ res' = Result("build", x.kind, x.ts, "", b.r)

UpSampleResnetBlock_call_op ==
    /\ layer.cls = "UpSampleResnetBlock"
    /\ \E x \in UpInputs :
          LET c == UpSampleResnetBlock___call__(layer, x.kind, x.ts, "None")
          IN  /\ layer' = c.self
              /\ res' = Result("call", x.kind, x.ts, "None", c.r)

NextUp == UpSampleResnetBlock_build_op \/ UpSampleResnetBlock_call_op

SpecUp == InitUp /\ [][NextUp]_vars

(***************************************************************************)
(* Build-once lifecycle of the two layers that override build.            *)
(***************************************************************************)
InitLifecycle == InitDeconv3D \/ InitUp

NextLifecycle == NextDeconv3D \/ NextUp

SpecLifecycle == InitLifecycle /\ [][NextLifecycle]_vars

(***************************************************************************)
(* An encoder stage feeding its decoder stage: the down block is called,   *)
(* then the up block is called on [primary output, skip output].           *)
(***************************************************************************)
NetInputShapes == {<<1, 16, 16, 16, 4>>, <<1, 2, 2, 2, 1>>, <<2, 4, 2, 4, 2>>, <<1, 3, 4, 4, 4>>}

InitNet ==
    /\ layer \in {[cls |-> "Net",
                   down |-> DownSampleResnetBlock(fd, Conv3dBlockKernelSize, p),
                   up |-> UpSampleResnetBlock(fu, a)] :
                     fd \in {2, 8}, fu \in {4, 8}, p \in BOOLEAN, a \in BOOLEAN}
    /\ res = NoResult

Net_down_call ==
    /\ layer.cls = "Net"
    /\ res.op = "init"
    /\ \E shape \in NetInputShapes, training \in Trainings :
          res' = Result("down", "tensor", <<InputTensor(shape)>>, training,
                        DownSampleResnetBlock_call(layer.down, InputTensor(shape), training))
    /\ UNCHANGED layer

Net_up_call ==
    /\ layer.cls = "Net"
    /\ res.op = "down"
    /\ res.r.ok
    /\ LET c == UpSampleResnetBlock___call__(layer.up, "list", res.r.out, res.training)
       IN  /\ layer' = [layer EXCEPT !.up = c.self]
           /\ res' = Result("up", "list", res.r.out, res.training, c.r)

NextNet == Net_down_call \/ Net_up_call

SpecNet == InitNet /\ [][NextNet]_vars

(***************************************************************************)
(* Every block that normalizes, for the propagation of the training flag.  *)
(***************************************************************************)
InitTraining == InitConv3dBlock \/ InitDeconv3dBlock \/ InitDown \/ InitNet

NextTraining ==
    \/ Conv3dBlock___call__
    \/ Deconv3dBlock___call__
    \/ DownSampleResnetBlock___call__
    \/ NextNet

SpecTraining == InitTraining /\ [][NextTraining]_vars

(***************************************************************************)
(* Properties.                                                             *)
(***************************************************************************)
Spatial(shape) == SubSeq(shape, 2, 4)

(* C1: after a call of a Deconv3D that has an output_shape, on an input    *)
(* for which the stored output padding is the one the build formula gives  *)
(* and is valid (0 <= output_padding_i < stride_i), the call returned a    *)
(* tensor whose three spatial dimensions are output_shape, and the         *)
(* primitive was built with padding "same" whatever the caller passed.     *)
C1_OutputShape ==
    (layer.cls = "Deconv3D" /\ res.op = "call" /\ layer._output_shape # NoList) =>
        LET x == res.inputs[1].shape
            o == layer._output_shape
            k == layer._kernel_size
            s == layer._strides
            p == [i \in 1..3 |->
                     o[i] - ((x[i + 1] - 1) * s[i] + k[i] - 2 * (k[i] \div 2))]
        IN  (layer._output_padding = p /\ \A i \in 1..3 : 0 <= p[i] /\ p[i] < s[i]) =>
                /\ res.r.ok
                /\ Spatial(res.r.out[1].shape) = o
                /\ layer._padding = "same"
                /\ layer._Conv3DTranspose.padding = "same"

C1_Witness ==
    /\ layer.cls = "Deconv3D"
    /\ res.op = "call"
    /\ res.r.ok
    /\ layer._strides = <<2, 1, 3>>
    /\ layer._kernel_size = <<3, 1, 2>>
    /\ layer._output_padding \in {<<1, 0, 2>>, <<0, 0, 2>>, <<1, 0, 1>>, <<0, 0, 1>>}
    /\ Spatial(res.r.out[1].shape) = layer._output_shape
    /\ Spatial(res.inputs[1].shape) # layer._output_shape

(* C2: Resize3d.call on (batch, d1, d2, d3, channels) returns a tensor of  *)
(* shape (batch, size1, size2, size3, channels), and each of its three     *)
(* reshapes keeps the element count.                                       *)
C2_Resize3dShape ==
    (layer.cls = "Resize3d" /\ res.op = "call") =>
        LET x == res.inputs[1].shape
            reshapes == {i \in 1..Len(res.r.log) : res.r.log[i].op = "reshape"}
        IN  /\ res.r.ok
            /\ res.r.out[1].shape =
                   <<x[1], layer._size[1], layer._size[2], layer._size[3], x[5]>>
            /\ Cardinality(reshapes) = 3
            /\ \A i \in reshapes : Product(res.r.log[i].a) = Product(res.r.log[i].to)

C2_Witness ==
    /\ layer.cls = "Resize3d"
    /\ res.op = "call"
    /\ res.r.ok
    /\ res.inputs[1].shape = <<2, 1, 2, 1, 3>>
    /\ layer._size = <<2, 1, 2>>
    /\ res.r.out[1].shape = <<2, 2, 1, 2, 3>>

(* C3: AdditiveUpSampling.call with C channels and stride S returns, when  *)
(* C % S = 0, a tensor of shape (batch, output_shape, C/S) whose channel j *)
(* is the sum over k in 0..S-1 of channel k*(C/S)+j of the resized input;  *)
(* when C % S # 0 it raises ValueError before any resize or split.         *)
C3_AdditiveUpSampling ==
    (layer.cls = "AdditiveUpSampling" /\ res.op = "call") =>
        LET x == res.inputs[1]
            C == x.shape[5]
            S == layer._stride
            w == C \div S
        IN  IF C % S = 0
            THEN /\ res.r.ok
                 /\ res.r.out[1].shape =
                        <<x.shape[1], layer._resize3d._size[1], layer._resize3d._size[2],
                          layer._resize3d._size[3], w>>
                 /\ \A j \in 1..w :
                        res.r.out[1].ch[j] = SumSeq([k \in 1..S |-> x.ch[(k - 1) * w + j]])
            ELSE /\ ~res.r.ok
                 /\ res.r.err = "ValueError"
                 /\ res.r.log = <<>>
                 /\ res.r.out = <<>>

C3_Witness ==
    /\ layer.cls = "AdditiveUpSampling"
    /\ res.op = "call"
    /\ layer._stride = 2
    /\ res.inputs[1].shape[5] = 4
    /\ res.r.ok
    /\ res.r.out[1].ch = <<5, 10>>

(* C4 as stated: build and call raise ValueError on a single tensor and on *)
(* a sequence of length other than 2, their check accepts every            *)
(* two-element sequence of tensors, and a not yet built block whose build  *)
(* rejected its input has no lazily built sub-layer.                       *)
UpRejected ==
    /\ ~res.r.ok
    /\ res.r.err = "ValueError"
    /\ res.r.at \in {"UpSampleResnetBlock.build", "UpSampleResnetBlock.call"}
    /\ res.r.log = <<>>

C4_Original ==
    (layer.cls = "UpSampleResnetBlock" /\ res.op \in {"build", "call"}) =>
        /\ (res.kind = "tensor" \/ Len(res.inputs) # 2) => UpRejected
        /\ (res.kind \in {"list", "tuple"} /\ Len(res.inputs) = 2) => ~UpRejected
        /\ ~layer.built =>
               layer._deconv3d_block = None /\ layer._additive_upsampling = None

(* C4 amended: the accepted input is exactly a two-element list.  build    *)
(* and call raise ValueError, before anything else runs, on a single       *)
(* tensor, on any sequence that is not a list (a two-element tuple too)    *)
(* and on a list of length other than 2; on a two-element list the check   *)
(* passes and build succeeds and sets _deconv3d_block; the error comes     *)
(* from build when the block is not built yet, from call otherwise; a      *)
(* block that is not built has no lazily built sub-layer.                  *)
C4_ExactlyTwoElementList ==
    layer.cls = "UpSampleResnetBlock" =>
        /\ ~layer.built =>
               layer._deconv3d_block = None /\ layer._additive_upsampling = None
        /\ res.op \in {"build", "call"} =>
               LET accepted == res.kind = "list" /\ Len(res.inputs) = 2
               IN  /\ ~accepted => UpRejected
                   /\ accepted => ~UpRejected
                   /\ (accepted /\ res.op = "build") =>
                          /\ res.r.ok
                          /\ layer.built
                          /\ layer._deconv3d_block # None
                          /\ layer._deconv3d_block._deconv3d._output_shape =
                                 Spatial(res.inputs[2].shape)
                   /\ (~accepted /\ res.op = "build") =>
                          res.r.at = "UpSampleResnetBlock.build"
                   /\ (~accepted /\ res.op = "call") =>
                          (res.r.at = "UpSampleResnetBlock.call" <=> layer.built)

C4_Witness ==
    /\ layer.cls = "UpSampleResnetBlock"
    /\ layer.built
    /\ res.op = "call"
    /\ res.kind = "tuple"
    /\ Len(res.inputs) = 2
    /\ res.r.err = "ValueError"
    /\ res.r.at = "UpSampleResnetBlock.call"

(* C5: DownSampleResnetBlock(filters=F).call returns exactly two tensors   *)
(* (h1, h0), h0 being the output of the first conv block; on an input      *)
(* (batch, d1, d2, d3, c) with even d1, d2, d3, h1 is (batch, d1/2, d2/2,  *)
(* d3/2, F) and h0 is (batch, d1, d2, d3, F), and the block with the other *)
(* value of use_pooling returns the same two shapes.                       *)
C5_DownShapes ==
    (layer.cls = "DownSampleResnetBlock" /\ res.op = "call") =>
        LET x == res.inputs[1].shape
            F == layer._conv3d_block1._conv3d.filters
            other == DownSampleResnetBlock_call([layer EXCEPT !._use_pooling = ~@],
                                                res.inputs[1], res.training)
        IN  /\ res.r.ok
            /\ Len(res.r.out) = 2
            /\ res.r.out[2].by = "_conv3d_block1"
            /\ (\A i \in 2..4 : x[i] % 2 = 0) =>
                   /\ res.r.out[1].shape = <<x[1], x[2] \div 2, x[3] \div 2, x[4] \div 2, F>>
                   /\ res.r.out[2].shape = <<x[1], x[2], x[3], x[4], F>>
                   /\ ShapesOf(other.out) = ShapesOf(res.r.out)

C5_Witness ==
    /\ layer.cls = "DownSampleResnetBlock"
    /\ ~layer._use_pooling
    /\ res.op = "call"
    /\ res.inputs[1].shape = <<2, 4, 2, 4, 3>>
    /\ res.r.ok
    /\ ShapesOf(res.r.out) = <<<<2, 2, 1, 2, 2>>, <<2, 4, 2, 4, 2>>>>

(* C6 as stated: with default settings, DownSampleResnetBlock(filters=8)   *)
(* on (1,16,16,16,4) returns (1,8,8,8,8) and (1,16,16,16,8), and           *)
(* UpSampleResnetBlock(filters=8) on [those two] returns (1,16,16,16,8),   *)
(* every addition being between tensors of equal shape.                    *)
E2EInput == <<1, 16, 16, 16, 4>>

E2EPrimary == <<1, 8, 8, 8, 8>>

E2ESkip == <<1, 16, 16, 16, 8>>

E2ELayers ==
    /\ layer.cls = "Net"
    /\ layer.down._use_pooling
    /\ layer.down._conv3d_block1._conv3d.filters = 8
    /\ layer.up._filters = 8

E2EDown ==
    (res.op = "down" /\ res.inputs[1].shape = E2EInput) =>
        res.r.ok /\ ShapesOf(res.r.out) = <<E2EPrimary, E2ESkip>>

AddsOfEqualShapes ==
    \A i \in 1..Len(res.r.log) : res.r.log[i].op = "add" => res.r.log[i].a = res.r.log[i].b

C6_Original ==
    (E2ELayers /\ layer.up._use_additive_upsampling) =>
        /\ E2EDown
        /\ (res.op = "up" /\ ShapesOf(res.inputs) = <<E2EPrimary, E2ESkip>>) =>
               /\ res.r.ok
               /\ res.r.out[1].shape = E2ESkip
               /\ AddsOfEqualShapes

(* C6 amended: the down block returns (1,8,8,8,8) and (1,16,16,16,8);      *)
(* UpSampleResnetBlock(filters=8) on [those two] with the default          *)
(* use_additive_upsampling=True fails at h0 += AdditiveUpSampling(nonskip),*)
(* whose operands have 8 and 4 channels, and returns nothing; with         *)
(* use_additive_upsampling=False it returns (1,16,16,16,8) and every       *)
(* addition is between tensors of equal shape.                             *)
C6_EndToEnd ==
    E2ELayers =>
        /\ E2EDown
        /\ (res.op = "up" /\ ShapesOf(res.inputs) = <<E2EPrimary, E2ESkip>>) =>
               IF layer.up._use_additive_upsampling
               THEN /\ ~res.r.ok
                    /\ res.r.err = "InvalidArgumentError"
                    /\ res.r.at = "h0 += additive_upsampling"
                    /\ res.r.log[Len(res.r.log)].op = "add"
                    /\ res.r.log[Len(res.r.log)].a = E2ESkip
                    /\ res.r.log[Len(res.r.log)].b = <<1, 16, 16, 16, 4>>
               ELSE /\ res.r.ok
                    /\ res.r.out[1].shape = E2ESkip
                    /\ AddsOfEqualShapes

C6_Witness ==
    /\ E2ELayers
    /\ layer.up._use_additive_upsampling
    /\ res.op = "up"
    /\ ShapesOf(res.inputs) = <<E2EPrimary, E2ESkip>>
    /\ res.r.at = "h0 += additive_upsampling"

(* C7: DDFSummand.call passes the projection through Resize3d if and only  *)
(* if the input's spatial shape differs from output_shape, and the output  *)
(* has shape (batch, output_shape, filters) in both cases.                 *)
C7_ResizeIffMismatch ==
    (layer.cls = "DDFSummand" /\ res.op = "call") =>
        LET x == res.inputs[1].shape
            o == layer._output_shape
            resized == \E i \in 1..Len(res.r.log) : res.r.log[i].op = "image.resize"
        IN  /\ resized <=> Spatial(x) # o
            /\ res.r.ok
            /\ res.r.out[1].shape = <<x[1], o[1], o[2], o[3], layer._conv3d.filters>>

(* C8 as stated: once a layer is built, no later operation (a call, a call *)
(* on a differently shaped input, a repeated build on a different shape)   *)
(* changes the configuration fixed at the first build.                     *)
DeconvOf(l) ==
    IF l.cls = "Deconv3D" THEN l
    ELSE IF l.cls = "UpSampleResnetBlock" /\ l._deconv3d_block # None
    THEN l._deconv3d_block._deconv3d
    ELSE None

PrimitiveConfig(p) == IF p = None THEN None ELSE [p EXCEPT !.in_channels = 0]

DeconvConfig(d) ==
    <<d._output_padding, d._padding, d._kernel_size, d._strides,
      PrimitiveConfig(d._Conv3DTranspose)>>

UpConfig(l) ==
    <<IF l._deconv3d_block = None THEN NoList
      ELSE <<l._deconv3d_block._deconv3d._output_shape>>,
      l._additive_upsampling>>

KeepsConfig(l, m) ==
    /\ (l.cls = "UpSampleResnetBlock" /\ l.built) => UpConfig(m) = UpConfig(l)
    /\ (DeconvOf(l) # None /\ DeconvOf(l).built) =>
           /\ DeconvOf(m) # None
           /\ DeconvOf(m).built
           /\ DeconvConfig(DeconvOf(m)) = DeconvConfig(DeconvOf(l))

C8_Original == [][KeepsConfig(layer, layer')]_vars

(* C8 amended: no call, whatever the shape of its input, changes the       *)
(* configuration of a layer that is already built: Deconv3D's              *)
(* _output_padding, _padding, _kernel_size, _strides and primitive,        *)
(* UpSampleResnetBlock's _deconv3d_block and _additive_upsampling with     *)
(* their output_shape, and the Deconv3D nested in the block once it is     *)
(* built; build runs inside a call only when the layer is not built yet.   *)
C8_CallKeepsConfig ==
    [][res'.op = "call" =>
          /\ KeepsConfig(layer, layer')
          /\ layer.built => res'.r.at # "UpSampleResnetBlock.build"]_vars

C8_Witness ==
    /\ layer.cls = "Deconv3D"
    /\ layer._output_shape # NoList
    /\ res.op = "call"
    /\ res.r.ok
    /\ Spatial(res.r.out[1].shape) # layer._output_shape
    /\ Spatial(res.r.out[1].shape) =
           [i \in 1..3 |-> DeconvOutputLength(res.inputs[1].shape[i + 1],
                                              layer._kernel_size[i], layer._padding,
                                              <<layer._output_padding[i]>>,
                                              layer._strides[i])]

(* C9 as stated: Deconv3D never returns a tensor whose spatial shape       *)
(* differs from a supplied output_shape; an output padding that is         *)
(* negative or not smaller than the stride is stored unvalidated, handed   *)
(* to the primitive's constructor, and reported by it as ValueError when   *)
(* build runs, before any transposed convolution has produced an output.   *)
ComputedPadding(o, n, k, s) == o - ((n - 1) * s + k - 2 * (k \div 2))

ValidPadding(q, s) == \A i \in 1..3 : 0 <= q[i] /\ q[i] < s[i]

DeconvSteps(log) == {i \in 1..Len(log) : log[i].op = "conv3d_transpose"}

BuildsDeconv ==
    \/ layer.cls = "Deconv3D" /\ res'.op = "build"
    \/ /\ res'.op = "call"
       /\ layer.cls = "UpSampleResnetBlock" => res'.kind = "list" /\ Len(res'.inputs) = 2
       /\ DeconvOf(layer) = None \/ ~DeconvOf(layer).built

DelegatedFailure ==
    LET d0 == DeconvOf(layer)
        d == DeconvOf(layer')
        x == res'.inputs[1].shape
        log == res'.r.log
    IN  (d # None /\ d._output_shape # NoList) =>
            /\ d._Conv3DTranspose = None => DeconvSteps(log) = {}
            /\ d._Conv3DTranspose # None =>
                   ValidPadding(d._Conv3DTranspose.output_padding,
                                d._Conv3DTranspose.strides)
            /\ BuildsDeconv =>
                   LET p == [i \in 1..3 |->
                                ComputedPadding(d._output_shape[i], x[i + 1],
                                                d._kernel_size[i], d._strides[i])]
                   IN  /\ d.built
                       /\ d._output_padding = p
                       /\ (d._strides = <<2, 2, 2>> /\ d._kernel_size = <<3, 3, 3>>) =>
                              (ValidPadding(p, d._strides) <=>
                                   \A i \in 1..3 :
                                       d._output_shape[i] \in {2 * x[i + 1] - 1, 2 * x[i + 1]})
                       /\ IF ValidPadding(p, d._strides)
                          THEN /\ d._Conv3DTranspose # None
                               /\ d._Conv3DTranspose.output_padding = p
                               /\ res'.r.at # "Conv3DTranspose.__init__"
                          ELSE /\ ~res'.r.ok
                               /\ res'.r.err = "ValueError"
                               /\ res'.r.at = "Conv3DTranspose.__init__"
                               /\ DeconvSteps(log) = {}
                               /\ (d0 = None \/ ~d0.built) => d._Conv3DTranspose = None

NeverAnotherShape ==
    LET d == DeconvOf(layer')
    IN  (d # None /\ d._output_shape # NoList) =>
            \A i \in DeconvSteps(res'.r.log) :
                Spatial(res'.r.log[i].to) = d._output_shape

C9_Original == [][NeverAnotherShape /\ DelegatedFailure]_vars

(* C9 amended: Deconv3D returns a tensor of the supplied output_shape on   *)
(* every input whose spatial shape gives the output padding its primitive  *)
(* was constructed with (a later call on another spatial shape reuses that *)
(* padding and returns another shape); an output padding that is negative  *)
(* or not smaller than the stride (stride 2, kernel 3: an output dimension *)
(* outside {2n-1, 2n} for input dimension n) is stored unvalidated, handed *)
(* to the primitive's constructor, and reported by it as ValueError when   *)
(* build runs; a layer whose only build failed has no primitive and        *)
(* produces no output.                                                     *)
ShapeItWasBuiltFor ==
    LET d == DeconvOf(layer')
        x == res'.inputs[1].shape
    IN  (d # None /\ d._output_shape # NoList) =>
            \A i \in DeconvSteps(res'.r.log) :
                (d._Conv3DTranspose.output_padding =
                     [j \in 1..3 |-> ComputedPadding(d._output_shape[j], x[j + 1],
                                                     d._kernel_size[j], d._strides[j])])
                    => Spatial(res'.r.log[i].to) = d._output_shape

C9_DelegatedValidation == [][ShapeItWasBuiltFor /\ DelegatedFailure]_vars

C9_Witness ==
    /\ layer.cls = "UpSampleResnetBlock"
    /\ layer.built
    /\ res.op = "call"
    /\ res.kind = "list"
    /\ res.r.err = "ValueError"
    /\ res.r.at = "Conv3DTranspose.__init__"
    /\ layer._deconv3d_block._deconv3d.built
    /\ layer._deconv3d_block._deconv3d._Conv3DTranspose = None
    /\ ~ValidPadding(layer._deconv3d_block._deconv3d._output_padding,
                     layer._deconv3d_block._deconv3d._strides)

(* C10: in one call with training = t, every batch normalization that is   *)
(* executed, directly or in a nested block, is invoked with training = t;  *)
(* within each block the normalization directly follows the block's        *)
(* spatial transform, on its output, and precedes the block's ReLU.        *)
Parent(e) == SubSeq(e.layer, 1, Len(e.layer) - 1)

IsPrefix(p, q) == Len(p) <= Len(q) /\ SubSeq(q, 1, Len(p)) = p

BatchNormSteps(log) == {i \in 1..Len(log) : log[i].op = "batch_norm"}

ExpectedBatchNorms ==
    IF layer.cls \in {"Conv3dBlock", "Deconv3dBlock"} THEN 1
    ELSE IF layer.cls = "DownSampleResnetBlock"
    THEN IF layer._use_pooling THEN 3 ELSE 4
    ELSE IF res.op = "down"
    THEN IF layer.down._use_pooling THEN 3 ELSE 4
    ELSE 3

C10_TrainingReachesBatchNorm ==
    res.op \in {"call", "down", "up"} =>
        LET log == res.r.log
        IN  /\ \A i \in BatchNormSteps(log) :
                   /\ log[i].training = res.training
                   /\ i > 1
                   /\ log[i - 1].op \in {"conv3d", "conv3d_transpose"}
                   /\ IsPrefix(Parent(log[i]), log[i - 1].layer)
                   /\ log[i - 1].to = log[i].a
                   /\ \A j \in 1..Len(log) :
                          (log[j].op = "relu" /\ Parent(log[j]) = Parent(log[i])) => j > i
                   /\ res.r.ok =>
                          \E j \in (i + 1)..Len(log) :
                              log[j].op = "relu" /\ Parent(log[j]) = Parent(log[i])
            /\ res.r.ok => Cardinality(BatchNormSteps(log)) = ExpectedBatchNorms

C10_Witness ==
    /\ layer.cls = "Net"
    /\ res.op = "up"
    /\ res.r.ok
    /\ res.training = "False"
    /\ Cardinality(BatchNormSteps(res.r.log)) = 3
    /\ \A i \in BatchNormSteps(res.r.log) : res.r.log[i].training = "False"

====
